---------------------------- MODULE Spec2Model ----------------------------
(***************************************************************************)
(* A model of conda/gateways/disk/create.py: link materialization          *)
(* (create_link, create_hard_link_or_copy), the entry-point writers and     *)
(* compile_pyc, tarball extraction with the ownership rewrite              *)
(* (extract_tarball), and the files under conda-meta: the                  *)
(* private-environment registry (get_json_content,                         *)
(* create_private_envs_meta, remove_private_envs_meta) and the package     *)
(* records (write_conda_meta_record).                                      *)
(*                                                                         *)
(* Three specifications share the module: SpecReg (conda-meta), SpecTar    *)
(* (extraction) and SpecLink (links, copies and written files).            *)
(***************************************************************************)
EXTENDS Integers, Sequences, FiniteSets, TLC

VARIABLES
    regFile,    \* the file at PRIVATE_ENVS: [present, text], text a sequence of JSON tokens
    metaDirs,   \* the prefixes whose conda-meta directory exists
    metaRecords,\* prefix -> the record files in its conda-meta: file name -> JSON tokens
    regLast,    \* the last registry call: its arguments, what it read, its outcome
    shadow,     \* the upserts and removals so far, applied to an empty mapping
    origin,     \* what the registry file was when the run began
    archive,    \* the tarball's members: path -> [kind, owner, target]
    platform,   \* sys.platform
    uid,        \* os.getuid() of the process: its real user id
    euid,       \* os.geteuid(): the user id the process acts with
    egid,       \* os.getegid(): the group of what the process creates
    optimize,   \* sys.flags.optimize > 0 (python -O): assert statements are not run
    trees,      \* destination directory -> [exists, owner, entries] on disk
    tarLast,    \* the last extract_tarball call
    fs,         \* the filesystem: path -> [kind, ino, target], the root directory left out
    inodes,     \* inode number -> [content, stat] of a regular file
    on_win,     \* conda.common.compat.on_win
    calls,      \* how many calls were made on the filesystem
    linkLast    \* the last of these calls and the filesystem it began with

regVars == <<regFile, metaDirs, metaRecords, regLast, shadow, origin>>
tarVars == <<archive, platform, uid, euid, egid, optimize, trees, tarLast>>
linkVars == <<fs, inodes, on_win, calls, linkLast>>
vars == <<regVars, tarVars, linkVars>>

(***************************************************************************)
(* The private-environment registry.                                       *)
(*                                                                         *)
(* The file's text is a sequence of tokens: the punctuation marks of JSON  *)
(* and string literals (package names and prefixes).  json.load parses it, *)
(* json.dump writes it, and a Python dict keeps its keys in insertion      *)
(* order: it is modelled as a sequence of [k, v] pairs with distinct keys. *)
(***************************************************************************)
Pkgs == {"a", "b", "c"}
Prefixes == {"/p1", "/p2"}
RootPrefixes == {"/root"}
Punct == {"{", "}", ":", ","}

NoFile == [present |-> FALSE, text |-> <<>>]
FileOf(text) == [present |-> TRUE, text |-> text]

\* dict.keys()
Keys(d) == {d[i].k : i \in 1..Len(d)}

\* d[k] for a key of d
Lookup(d, k) == LET i == CHOOSE j \in 1..Len(d) : d[j].k = k IN d[i].v

\* d[k] = v: an existing key keeps its place, a new key goes last
DictSet(d, k, v) ==
    IF k \in Keys(d)
    THEN [i \in 1..Len(d) |-> IF d[i].k = k THEN [k |-> k, v |-> v] ELSE d[i]]
    ELSE Append(d, [k |-> k, v |-> v])

\* d.pop(k) for a key of d
DictPop(d, k) == SelectSeq(d, LAMBDA e : e.k # k)

\* The dict as a mapping, whatever the order of its keys.
AsMapping(d) == [k \in Keys(d) |-> Lookup(d, k)]

\* json.dump of a dict with string values: {"k": "v", ...}
RECURSIVE DumpMembers(_)
DumpMembers(d) ==
    IF d = <<>> THEN <<>>
    ELSE <<Head(d).k, ":", Head(d).v>>
         \o (IF Tail(d) = <<>> THEN <<>> ELSE <<",">> \o DumpMembers(Tail(d)))

json_dump(d) == <<"{">> \o DumpMembers(d) \o <<"}">>

\* The members of an object after its opening brace: string : string, then a
\* comma and more members, or the closing brace and the end of the text.
RECURSIVE ParseMembers(_, _)
ParseMembers(t, acc) ==
    IF Len(t) >= 4 /\ t[1] \notin Punct /\ t[2] = ":" /\ t[3] \notin Punct
    THEN LET d == DictSet(acc, t[1], t[3])
         IN  IF t[4] = "}" /\ Len(t) = 4 THEN [ok |-> TRUE, kind |-> "dict", d |-> d]
             ELSE IF t[4] = "," THEN ParseMembers(SubSeq(t, 5, Len(t)), d)
             ELSE [ok |-> FALSE, kind |-> "none", d |-> <<>>]
    ELSE [ok |-> FALSE, kind |-> "none", d |-> <<>>]

\* json.load: a dict, a bare string (valid JSON, not an object), or JSONDecodeError
json_load(t) ==
    IF Len(t) = 1 /\ t[1] \notin Punct THEN [ok |-> TRUE, kind |-> "str", d |-> <<>>]
    ELSE IF t = <<"{", "}">> THEN [ok |-> TRUE, kind |-> "dict", d |-> <<>>]
    ELSE IF Len(t) >= 1 /\ t[1] = "{" THEN ParseMembers(Tail(t), <<>>)
    ELSE [ok |-> FALSE, kind |-> "none", d |-> <<>>]

\* get_json_content without its except clause: the decode error escapes.
get_json_content_no_except(f) ==
    IF f.present
    THEN LET r == json_load(f.text)
         IN  IF r.ok THEN [kind |-> r.kind, d |-> r.d]
             ELSE [kind |-> "JSONDecodeError", d |-> <<>>]
    ELSE [kind |-> "dict", d |-> <<>>]

\* get_json_content: {} for a missing file and for JSONDecodeError
get_json_content(f) ==
    IF f.present
    THEN LET r == json_load(f.text)
         IN  IF r.ok THEN [kind |-> r.kind, d |-> r.d] ELSE [kind |-> "dict", d |-> <<>>]
    ELSE [kind |-> "dict", d |-> <<>>]

\* rm_rf of the registry path: the file is gone afterwards, and a missing file
\* is no error (conda/gateways/disk/delete.py, outside the sources at hand).
rm_rf_file(f) == NoFile

\* The write-back without the test for an empty dict: {} is written.
RemoveWriteBack_always_dump(f, d) == FileOf(json_dump(d))

\* The write-back with the test inverted into "always delete".
RemoveWriteBack_always_delete(f, d) == rm_rf_file(f)

\* remove_private_envs_meta's write-back: no file for an empty dict
RemoveWriteBack(f, d) == IF d = <<>> THEN rm_rf_file(f) ELSE FileOf(json_dump(d))

\* The mapping the calls so far amount to.
ShadowSet(m, k, v) == [x \in DOMAIN m \cup {k} |-> IF x = k THEN v ELSE m[x]]
ShadowPop(m, k) == [x \in DOMAIN m \ {k} |-> m[x]]
EmptyMapping == [x \in {} |-> "/p1"]

\* The exception a value that is no dict raises: str has neither item
\* assignment (TypeError) nor keys() (AttributeError).
Raised(kind, onStr) == IF kind = "str" THEN onStr ELSE kind

NoCall == [op |-> "none", pkg |-> "a", prefix |-> "/p1", outcome |-> "ok",
           pre |-> NoFile, read |-> [kind |-> "dict", d |-> <<>>]]

\* create_private_envs_meta(pkg, root_prefix, private_env_prefix)
create_private_envs_meta(pkg, root, prefix) ==
    LET json == get_json_content(regFile)
    IN  /\ metaDirs' = metaDirs \cup {root}
        /\ IF json.kind = "dict"
           THEN /\ regFile' = FileOf(json_dump(DictSet(json.d, pkg, prefix)))
                /\ shadow' = ShadowSet(shadow, pkg, prefix)
                /\ regLast' = [op |-> "create", pkg |-> pkg, prefix |-> prefix,
                               outcome |-> "ok", pre |-> regFile, read |-> json]
           ELSE \* item assignment on a str: TypeError, before the file is opened
                /\ UNCHANGED <<regFile, shadow>>
                /\ regLast' = [op |-> "create", pkg |-> pkg, prefix |-> prefix,
                               outcome |-> Raised(json.kind, "TypeError"), pre |-> regFile, read |-> json]
        /\ UNCHANGED <<metaRecords, origin, tarVars, linkVars>>

\* remove_private_envs_meta(pkg)
remove_private_envs_meta(pkg) ==
    LET json == get_json_content(regFile)
    IN  /\ IF json.kind = "dict"
           THEN LET d == IF pkg \in Keys(json.d) THEN DictPop(json.d, pkg) ELSE json.d
                IN  /\ regFile' = RemoveWriteBack(regFile, d)
                    /\ shadow' = ShadowPop(shadow, pkg)
                    /\ regLast' = [op |-> "remove", pkg |-> pkg, prefix |-> "/p1",
                                   outcome |-> "ok", pre |-> regFile, read |-> json]
           ELSE \* str has no keys(): AttributeError
                /\ UNCHANGED <<regFile, shadow>>
                /\ regLast' = [op |-> "remove", pkg |-> pkg, prefix |-> "/p1",
                               outcome |-> Raised(json.kind, "AttributeError"), pre |-> regFile, read |-> json]
        /\ UNCHANGED <<metaDirs, metaRecords, origin, tarVars, linkVars>>

\* The prefixes package records are written into.
MetaPrefixes == RootPrefixes \cup {"/p1"}

\* The keys of a package record, in sorted order.
RecordKeys == <<"build", "name", "url", "version">>

\* json.dumps(record, indent=2, sort_keys=True): the members by sorted key
\* (indentation is not a token).
RECURSIVE SortedMembers(_, _)
SortedMembers(d, keys) ==
    IF keys = <<>> THEN <<>>
    ELSE (IF Head(keys) \in Keys(d)
          THEN <<[k |-> Head(keys), v |-> Lookup(d, Head(keys))]>> ELSE <<>>)
         \o SortedMembers(d, Tail(keys))

json_dumps_sorted(d) == json_dump(SortedMembers(d, RecordKeys))

\* Dist(record).to_filename('.json'): the package's canonical name
\* name-version-build and the suffix (conda/models/dist.py, outside the
\* sources at hand).
to_filename(record) ==
    <<Lookup(record, "name"), "-", Lookup(record, "version"), "-",
      Lookup(record, "build"), ".json">>

\* The records written: two spell one mapping in different key orders, the
\* third is the same package from another url.
Records ==
    { <<[k |-> "name", v |-> "a"], [k |-> "version", v |-> "1"],
        [k |-> "build", v |-> "0"], [k |-> "url", v |-> "u1"]>>,
      <<[k |-> "url", v |-> "u1"], [k |-> "build", v |-> "0"],
        [k |-> "version", v |-> "1"], [k |-> "name", v |-> "a"]>>,
      <<[k |-> "name", v |-> "a"], [k |-> "version", v |-> "1"],
        [k |-> "build", v |-> "0"], [k |-> "url", v |-> "u2"]>> }

NoRecords == [p \in MetaPrefixes |-> <<>>]

\* write_conda_meta_record(prefix, record): conda-meta is made when it is not
\* there, and the record's file is created or overwritten.
write_conda_meta_record(prefix, record) ==
    LET name == to_filename(record)
        old == metaRecords[prefix]
    IN  /\ metaDirs' = metaDirs \cup {prefix}
        /\ metaRecords' = [metaRecords EXCEPT ![prefix] =
               [n \in DOMAIN old \cup {name} |->
                   IF n = name THEN json_dumps_sorted(record) ELSE old[n]]]
        /\ UNCHANGED <<regFile, regLast, shadow, origin, tarVars, linkVars>>

\* What the registry file may hold when the run begins: nothing, valid objects
\* (one with a repeated key), a bare string, and texts json.load rejects.
InitTexts ==
    { <<"{", "}">>,
      <<"{", "a", ":", "/p1", "}">>,
      <<"{", "b", ":", "/p2", ",", "c", ":", "/p1", "}">>,
      <<"{", "a", ":", "/p1", ",", "a", ":", "/p2", "}">>,
      <<"a">>,
      <<>>,
      <<"{">>,
      <<"{", "a", ":">>,
      <<"{", "a", "/p1", "}">>,
      <<"{", "a", ":", "/p1", ",", "}">>,
      <<"{", "a", ":", "/p1", "}", "}">>,
      <<"}", "{">> }

(***************************************************************************)
(* extract_tarball.                                                        *)
(*                                                                         *)
(* A path inside the destination directory is a sequence of names.  A      *)
(* symbolic link's target is relative (resolved from the link's own        *)
(* directory) or absolute (resolved outside the destination, where /usr is *)
(* a directory and nothing else exists).                                   *)
(***************************************************************************)
\* Two functions as one; where both are defined, the first one's value.
Merge(a, b) == [p \in DOMAIN a \cup DOMAIN b |-> IF p \in DOMAIN a THEN a[p] ELSE b[p]]

Root == [uid |-> 0, gid |-> 0]
Builder == [uid |-> 1000, gid |-> 100]
RecordedOwners == {Root, Builder}

\* The owner of what the process creates itself.
ProcessOwner(eu, eg) == [uid |-> eu, gid |-> eg]

\* The processes: root, a user, a user in a set-uid root program, and root
\* after seteuid to a user, with and without setegid.
User == [uid |-> 1000, gid |-> 1000]
Processes ==
    { [uid |-> 0, euid |-> 0, egid |-> 0],
      [uid |-> 1000, euid |-> 1000, egid |-> 1000],
      [uid |-> 1000, euid |-> 0, egid |-> 0],
      [uid |-> 0, euid |-> 1000, egid |-> 1000],
      [uid |-> 0, euid |-> 1000, egid |-> 0] }

NoTarget == [abs |-> FALSE, path |-> <<>>]
Rel(p) == [abs |-> FALSE, path |-> p]
Abs(p) == [abs |-> TRUE, path |-> p]

FileMember(o) == [kind |-> "file", owner |-> o, target |-> NoTarget]
DirMember(o) == [kind |-> "dir", owner |-> o, target |-> NoTarget]
LinkMember(o, t) == [kind |-> "link", owner |-> o, target |-> t]

\* How many links a lookup follows before it gives up (the kernel's ELOOP).
MaxSymlinks == 4

\* The length of the archive suffix extract_tarball strips (".tar.bz2").
SuffixLen == 8

\* tarball_full_path[:-8]
DefaultDestination(tarball) ==
    IF Len(tarball) > SuffixLen THEN SubSeq(tarball, 1, Len(tarball) - SuffixLen) ELSE <<>>

Parent(p) == SubSeq(p, 1, Len(p) - 1)

\* The kind of what path p of the tree is once its links are followed:
\* "file", "dir" or "none" (missing, or a loop of links).
RECURSIVE StatKind(_, _, _)
StatKind(entries, p, fuel) ==
    IF p \notin DOMAIN entries THEN "none"
    ELSE IF entries[p].kind # "link" THEN entries[p].kind
    ELSE IF fuel = 0 THEN "none"
    ELSE LET t == entries[p].target
         IN  IF t.abs THEN (IF t.path = <<"usr">> THEN "dir" ELSE "none")
             ELSE StatKind(entries, Parent(p) \o t.path, fuel - 1)

Children(entries, top) ==
    {p \in DOMAIN entries : Len(p) = Len(top) + 1 /\ Parent(p) = top}

\* os.walk(top), followlinks=False: the paths it yields among "files".  An entry
\* is a directory when is_dir() says so, links followed; a link to a directory
\* is listed among the directories and not walked into.
RECURSIVE WalkFiles(_, _)
WalkFiles(entries, top) ==
    LET kids == Children(entries, top)
        dirs == {p \in kids : StatKind(entries, p, MaxSymlinks) = "dir"}
    IN  (kids \ dirs)
        \cup UNION {WalkFiles(entries, p) : p \in {q \in dirs : entries[q].kind # "link"}}

\* The rewrite that stays in the top directory and does not descend.
ChownTargets_top_only(entries) ==
    {p \in Children(entries, <<>>) : StatKind(entries, p, MaxSymlinks) # "dir"}

\* The paths the ownership rewrite hands to os.lchown(p, 0, 0).
ChownTargets(entries) == WalkFiles(entries, <<>>)

\* The directories a member's path needs that the archive does not list.
Ancestors(p) == {SubSeq(p, 1, n) : n \in 1..(Len(p) - 1)}

\* tarfile restores the owner the archive records when geteuid() == 0.
RestoresOwner(plat, eu) == plat # "win32" /\ eu = 0

\* What is already in the directory is of the kind the archive gives its path:
\* the directory is empty or was extracted from this archive.
Agrees(existing, members) ==
    \A p \in DOMAIN existing :
        /\ p \in DOMAIN members => existing[p].kind = members[p].kind
        /\ (\E q \in DOMAIN members : p \in Ancestors(q)) => existing[p].kind = "dir"

\* tarfile's extractall into a directory holding existing: every member is
\* created, a file that is there is rewritten and a directory that is there
\* is kept, a link that is there is removed and made again.  As root the member
\* gets the owner the archive records (lchown for a link); otherwise a new
\* entry is the process's and a file or directory that was there keeps its
\* owner.  A directory the archive does not list is made by the process when
\* it is not there.
ExtractAll(existing, members, plat, eu, eg) ==
    LET paths == DOMAIN existing \cup DOMAIN members
                 \cup UNION {Ancestors(p) : p \in DOMAIN members}
    IN  [p \in paths |->
            IF p \in DOMAIN members
            THEN [members[p] EXCEPT !.owner =
                     IF RestoresOwner(plat, eu) THEN members[p].owner
                     ELSE IF p \in DOMAIN existing /\ members[p].kind # "link"
                          THEN existing[p].owner
                     ELSE ProcessOwner(eu, eg)]
            ELSE IF p \in DOMAIN existing THEN existing[p]
            ELSE DirMember(ProcessOwner(eu, eg))]

\* The loop of os.lchown(p, 0, 0) over the walk.
ChownToRoot(entries, targets) ==
    [p \in DOMAIN entries |->
        IF p \in targets THEN [entries[p] EXCEPT !.owner = Root] ELSE entries[p]]

\* sys.platform.startswith('linux') and os.getuid() == 0
RewritesOwnership(plat, u) == plat = "linux" /\ u = 0

Tarballs == { <<"p", "k", "g", ".", "t", "a", "r", ".", "b", "z", "2">> }
ExplicitDestinations == { <<"o", "u", "t">>, <<"p", "k", "g">> }
Destinations == ExplicitDestinations \cup {DefaultDestination(t) : t \in Tarballs}

\* A destination that is not there, and an empty directory (mode 0755) of
\* owner o that was there before the run.
NoTree == [exists |-> FALSE, owner |-> Root, entries |-> <<>>]
EmptyDir(o) == [exists |-> TRUE, owner |-> o, entries |-> <<>>]

NoExtract == [op |-> "none", dest |-> <<>>, outcome |-> "ok", extracted |-> <<>>]

\* The process may create entries in the directory: it is root or the owner.
Writable(tree, eu) == eu = 0 \/ tree.owner.uid = eu

\* The order the archive stores its members in, and extractall takes them.
MemberOrder == << <<"f">>, <<"d">>, <<"l">>, <<"d", "g">>, <<"d", "m">> >>

\* tarfile's makelink when os.symlink fails: the member the link names is
\* extracted in the link's place; a target that is no member of the archive
\* is an ExtractError, which extractall passes over at errorlevel 1.  A file
\* or directory fails like the link did; a link is tried the same way, without
\* end when the links lead back to one of them.
RECURSIVE LinkFallback(_, _, _)
LinkFallback(members, q, fuel) ==
    LET t == members[q].target
        name == Parent(q) \o t.path
    IN  IF t.abs \/ name \notin DOMAIN members THEN "skip"
        ELSE IF members[name].kind # "link" THEN "PermissionError"
        ELSE IF fuel = 0 THEN "RecursionError"
        ELSE LinkFallback(members, name, fuel - 1)

\* extractall in a directory the process may not write to: nothing is created;
\* the first member that is a file or a directory, or lies below the top,
\* raises PermissionError, and a link at the top takes makelink's way out.
RECURSIVE DeniedOutcome(_, _)
DeniedOutcome(members, order) ==
    IF order = <<>> THEN "ok"
    ELSE LET p == Head(order)
             o == IF p \notin DOMAIN members THEN "skip"
                  ELSE IF Len(p) > 1 \/ members[p].kind # "link" THEN "PermissionError"
                  ELSE LinkFallback(members, p, Cardinality(DOMAIN members))
         IN  IF o = "skip" THEN DeniedOutcome(members, Tail(order)) ELSE o

\* t.extractall(path=destination_directory).  An archive without members
\* creates nothing, not even the destination.  A destination that is not there
\* is made by the process.
Extraction(tree, members, plat, eu, eg) ==
    CASE members = <<>> -> [outcome |-> "ok", tree |-> tree]
      [] members # <<>> /\ ~tree.exists ->
            [outcome |-> "ok",
             tree |-> [exists |-> TRUE, owner |-> ProcessOwner(eu, eg),
                       entries |-> ExtractAll(<<>>, members, plat, eu, eg)]]
      [] members # <<>> /\ tree.exists /\ Writable(tree, eu)
                        /\ Agrees(tree.entries, members) ->
            [outcome |-> "ok",
             tree |-> [tree EXCEPT
                          !.entries = ExtractAll(tree.entries, members, plat, eu, eg)]]
      [] members # <<>> /\ tree.exists /\ ~Writable(tree, eu) /\ tree.entries = <<>> ->
            [outcome |-> DeniedOutcome(members, MemberOrder), tree |-> tree]

\* extract_tarball(tarball_full_path, destination_directory): dest is the
\* directory given, or <<>> for None.
extract_tarball(tarball, given) ==
    LET dest == IF given = <<>> THEN DefaultDestination(tarball) ELSE given
    IN  IF trees[dest].exists /\ ~optimize
        THEN \* assert not exists(destination_directory)
             /\ tarLast' = [op |-> "extract", dest |-> dest, outcome |-> "AssertionError",
                            extracted |-> <<>>]
             /\ UNCHANGED <<archive, platform, uid, euid, egid, optimize, trees,
                            regVars, linkVars>>
        ELSE LET r == Extraction(trees[dest], archive, platform, euid, egid)
                 extracted == r.tree.entries
                 targets == IF r.outcome = "ok" /\ RewritesOwnership(platform, uid)
                            THEN ChownTargets(extracted) ELSE {}
                 \* os.lchown(p, 0, 0) is root's to call
                 denied == targets # {} /\ euid # 0
                 final == IF denied THEN extracted ELSE ChownToRoot(extracted, targets)
             IN  /\ trees' = [trees EXCEPT ![dest] = [r.tree EXCEPT !.entries = final]]
                 /\ tarLast' = [op |-> "extract", dest |-> dest,
                                outcome |-> IF denied THEN "PermissionError" ELSE r.outcome,
                                extracted |-> extracted]
                 /\ UNCHANGED <<archive, platform, uid, euid, egid, optimize,
                                regVars, linkVars>>

\* The archives: a file f, a directory d with a file d/g, a link l at the top and
\* a link d/m inside d, each present or not, with either recorded owner.
Optional(p, entries) == {<<>>} \cup {[q \in {p} |-> e] : e \in entries}

Archives ==
    { Merge(Merge(Merge(f, d), Merge(g, l)), m) :
        f \in Optional(<<"f">>, {FileMember(o) : o \in RecordedOwners}),
        d \in Optional(<<"d">>, {DirMember(o) : o \in RecordedOwners}),
        g \in Optional(<<"d", "g">>, {FileMember(Builder)}),
        l \in Optional(<<"l">>, {LinkMember(o, t) : o \in RecordedOwners,
                                    t \in {Rel(<<"f">>), Rel(<<"d">>), Rel(<<"x">>),
                                           Rel(<<"d", "m">>), Abs(<<"usr">>)}}),
        m \in Optional(<<"d", "m">>, {LinkMember(Builder, t) :
                                    t \in {Rel(<<"g">>), Rel(<<"m">>)}}) }

(***************************************************************************)
(* create_link and create_hard_link_or_copy.                               *)
(*                                                                         *)
(* The filesystem maps absolute paths (sequences of names below the root)  *)
(* to entries.  A regular file names its inode, so that hard links share   *)
(* content; a symbolic link holds its target, relative or absolute.  A     *)
(* file's content is a sequence of lines, a line a sequence of strings;    *)
(* its stat is its mode ("rw" or "rwx") and the time of its last write.    *)
(***************************************************************************)
FileEntry(i) == [kind |-> "file", ino |-> i, target |-> NoTarget]
DirEntry == [kind |-> "dir", ino |-> 0, target |-> NoTarget]
LinkEntry(t) == [kind |-> "link", ino |-> 0, target |-> t]

Basename(p) == p[Len(p)]

IsPrefix(p, q) == Len(p) <= Len(q) /\ SubSeq(q, 1, Len(p)) = p

\* Where a link's target leads from the directory the link is in.
TargetPath(dir, t) == IF t.abs THEN t.path ELSE dir \o t.path

IsRealDir(f, q) == q = <<>> \/ (q \in DOMAIN f /\ f[q].kind = "dir")

Failed == [st |-> "err", path |-> <<>>]

\* stat: path p with every link followed.  "ok" and where the entry is,
\* "missing" and where it would be (the parent directory exists), or "err".
RECURSIVE Real(_, _, _)
Real(f, p, fuel) ==
    IF p = <<>> THEN [st |-> "ok", path |-> <<>>]
    ELSE LET par == Real(f, Parent(p), fuel)
         IN  IF par.st # "ok" \/ ~IsRealDir(f, par.path) THEN Failed
             ELSE LET q == par.path \o <<Basename(p)>>
                  IN  IF q \notin DOMAIN f THEN [st |-> "missing", path |-> q]
                      ELSE IF f[q].kind # "link" THEN [st |-> "ok", path |-> q]
                      ELSE IF fuel = 0 THEN Failed
                      ELSE Real(f, TargetPath(par.path, f[q].target), fuel - 1)

\* lstat: the links of the directories followed, the last name not.
LReal(f, p) ==
    IF p = <<>> THEN [st |-> "ok", path |-> <<>>]
    ELSE LET par == Real(f, Parent(p), MaxSymlinks)
         IN  IF par.st # "ok" \/ ~IsRealDir(f, par.path) THEN Failed
             ELSE LET q == par.path \o <<Basename(p)>>
                  IN  [st |-> IF q \in DOMAIN f THEN "ok" ELSE "missing", path |-> q]

\* os.path.lexists: there is an entry at p, whatever it is.
lexists(f, p) == LReal(f, p).st = "ok"

\* os.path.exists follows links: a dangling link does not exist.
exists(f, p) == Real(f, p, MaxSymlinks).st = "ok"

islink(f, p) == lexists(f, p) /\ p # <<>> /\ f[LReal(f, p).path].kind = "link"

isdir(f, p) == exists(f, p) /\ IsRealDir(f, Real(f, p, MaxSymlinks).path)

\* os.readlink of a link
readlink(f, p) == f[LReal(f, p).path].target

Put(f, q, e) == [x \in DOMAIN f \cup {q} |-> IF x = q THEN e ELSE f[x]]

\* The inodes some entry still names: the others are freed.
Referenced(f, ino) ==
    [i \in {j \in DOMAIN ino : \E q \in DOMAIN f : f[q].kind = "file" /\ f[q].ino = j}
        |-> ino[i]]

FreshIno(ino) ==
    CHOOSE i \in 1..(Cardinality(DOMAIN ino) + 1) :
        i \notin DOMAIN ino /\ \A j \in 1..(i - 1) : j \in DOMAIN ino

Result(outcome, f, ino) == [outcome |-> outcome, fs |-> f, inodes |-> ino]

\* The native hard link: os.link, or win_hard_link (CreateHardLinkW, whose
\* failure is raised as CondaOSError).  The source's last name is not
\* followed; a directory cannot be linked, the destination must not be there,
\* and the call can fail for the volume's own reasons (another device).
HardLinkErr(win) == IF win THEN "CondaOSError" ELSE "OSError"

hard_link(f, ino, win, src, dst, envFail) ==
    LET s == LReal(f, src)
        d == LReal(f, dst)
    IN  IF envFail \/ s.st # "ok" \/ s.path = <<>> \/ d.st # "missing"
        THEN Result(HardLinkErr(win), f, ino)
        ELSE IF f[s.path].kind = "dir" THEN Result(HardLinkErr(win), f, ino)
        ELSE Result("ok", Put(f, d.path, f[s.path]), ino)

\* The native soft link: os.symlink, or win_soft_link.  The link's target is
\* the string given; the source need not exist.
soft_link(f, ino, win, target, dst, envFail) ==
    LET d == LReal(f, dst)
    IN  IF envFail \/ d.st # "missing"
        THEN Result(HardLinkErr(win), f, ino)
        ELSE Result("ok", Put(f, d.path, LinkEntry(target)), ino)

\* shutil.copy2(src, dst): into dst/basename(src) when dst is a directory;
\* SameFileError when both are one file; the source is opened for reading and
\* the destination for writing, links followed: an existing file is
\* overwritten in place, a missing one created, also through a dangling link;
\* then the source's stat is copied.
copy2(f, ino, src, dst) ==
    LET to == IF isdir(f, dst) THEN dst \o <<Basename(src)>> ELSE dst
        s == Real(f, src, MaxSymlinks)
        d == Real(f, to, MaxSymlinks)
    IN  IF s.st = "ok" /\ d.st = "ok" /\ s.path = d.path THEN Result("OSError", f, ino)
        ELSE IF s.st # "ok" \/ IsRealDir(f, s.path) THEN Result("OSError", f, ino)
        ELSE IF d.st = "ok" /\ IsRealDir(f, d.path) THEN Result("OSError", f, ino)
        ELSE IF d.st = "ok" /\ f[d.path].ino = f[s.path].ino THEN Result("OSError", f, ino)
        ELSE IF d.st = "ok"
             THEN Result("ok", f, [ino EXCEPT ![f[d.path].ino] = ino[f[s.path].ino]])
        ELSE IF d.st = "missing"
             THEN LET i == FreshIno(ino)
                  IN  Result("ok", Put(f, d.path, FileEntry(i)),
                             [x \in DOMAIN ino \cup {i} |->
                                 IF x = i THEN ino[f[s.path].ino] ELSE ino[x]])
        ELSE Result("OSError", f, ino)

\* rm_rf(path): the entry and, under a directory, everything below it; a link
\* is removed itself, not what it leads to
\* (conda/gateways/disk/delete.py, outside the sources at hand).
rm_rf(f, ino, p) ==
    LET d == LReal(f, p)
    IN  IF d.st = "ok" /\ d.path # <<>>
        THEN LET g == [q \in {x \in DOMAIN f : ~IsPrefix(d.path, x)} |-> f[q]]
             IN  Result("ok", g, Referenced(g, ino))
        ELSE Result("ok", f, ino)

\* os.mkdir(p)
mkdir(f, p) ==
    LET d == LReal(f, p)
    IN  IF d.st = "missing" THEN [errno |-> "none", fs |-> Put(f, d.path, DirEntry)]
        ELSE IF d.st = "ok" THEN [errno |-> "EEXIST", fs |-> f]
        ELSE [errno |-> "ENOENT", fs |-> f]

\* os.makedirs(p): the missing parents first (a parent that turns out to exist
\* is passed over), then the directory itself.
RECURSIVE makedirs(_, _)
makedirs(f, p) ==
    IF Len(p) > 1 /\ ~exists(f, Parent(p))
    THEN LET up == makedirs(f, Parent(p))
         IN  IF up.errno \in {"none", "EEXIST"} THEN mkdir(up.fs, p) ELSE up
    ELSE mkdir(f, p)

\* mkdir_p(path): an existing directory is no error
mkdir_p(f, ino, p) ==
    LET r == makedirs(f, p)
    IN  IF r.errno = "none" THEN Result("ok", r.fs, ino)
        ELSE IF r.errno = "EEXIST" /\ isdir(r.fs, p) THEN Result("ok", r.fs, ino)
        ELSE Result("OSError", r.fs, ino)

LinkTypes == {"hardlink", "softlink", "copy", "directory", "other"}

\* The clobber test of create_link: exists(dst)
ClobberTest(f, dst) == exists(f, dst)

\* The branch taken for every link, its target absolute or not.
CopiesAsLink_any_target(f, win, src) == ~win /\ islink(f, src)

\* The branch of LinkType.copy that recreates a relative link:
\* not on_win and islink(src) and not os.readlink(src).startswith('/')
CopiesAsLink(f, win, src) == ~win /\ islink(f, src) /\ ~readlink(f, src).abs

\* create_link past its clobber test: the dispatch on the link type
Dispatch(f, ino, win, src, dst, lt, envFail) ==
    IF lt = "hardlink" THEN hard_link(f, ino, win, src, dst, envFail)
    ELSE IF lt = "softlink" THEN soft_link(f, ino, win, Abs(src), dst, envFail)
    ELSE IF lt = "copy"
         THEN IF CopiesAsLink(f, win, src)
              THEN soft_link(f, ino, FALSE, readlink(f, src), dst, envFail)
              ELSE copy2(f, ino, src, dst)
    ELSE Result("CondaError", f, ino)

\* create_link deleting the destination before it looks at force.
CreateLink_delete_first(f, ino, win, src, dst, lt, force, envFail) ==
    IF lt = "directory" THEN mkdir_p(f, ino, dst)
    ELSE IF ClobberTest(f, dst)
         THEN LET r == rm_rf(f, ino, dst)
              IN  IF force THEN Dispatch(r.fs, r.inodes, win, src, dst, lt, envFail)
                  ELSE Result("ClobberError", r.fs, r.inodes)
    ELSE Dispatch(f, ino, win, src, dst, lt, envFail)

\* create_link(src, dst, link_type, force)
CreateLink(f, ino, win, src, dst, lt, force, envFail) ==
    IF lt = "directory" THEN mkdir_p(f, ino, dst)
    ELSE IF ClobberTest(f, dst)
         THEN IF force
              THEN LET r == rm_rf(f, ino, dst)
                   IN  Dispatch(r.fs, r.inodes, win, src, dst, lt, envFail)
              ELSE Result("ClobberError", f, ino)
    ELSE Dispatch(f, ino, win, src, dst, lt, envFail)

\* What "except (IOError, OSError)" catches: CondaOSError derives from OSError
\* (conda/exceptions.py, outside the sources at hand).
IsOSError(err) == err \in {"OSError", "CondaOSError"}

\* create_hard_link_or_copy without the except clause: no copy.
CreateHardLinkOrCopy_no_fallback(f, ino, win, src, dst, envFail) ==
    IF islink(f, src) THEN Result("CondaOSError", f, ino)
    ELSE hard_link(f, ino, win, src, dst, envFail)

\* create_hard_link_or_copy(src, dst)
CreateHardLinkOrCopy(f, ino, win, src, dst, envFail) ==
    IF islink(f, src) THEN Result("CondaOSError", f, ino)
    ELSE LET r == hard_link(f, ino, win, src, dst, envFail)
         IN  IF r.outcome = "ok" THEN r
             ELSE IF IsOSError(r.outcome) THEN copy2(f, ino, src, dst)
             ELSE r

\* A file made during the run.
NewFile(text) == [content |-> text, stat |-> [mode |-> "rw", mtime |-> "now"]]

\* open(path, 'w') and the writes: links are followed; a regular file that is
\* there is truncated and keeps its inode and mode, a missing one is created;
\* a directory, or a path whose directory is missing, is an OSError.
write_text(f, ino, p, text) ==
    LET d == Real(f, p, MaxSymlinks)
    IN  IF d.st = "ok" /\ ~IsRealDir(f, d.path)
        THEN Result("ok", f,
                    [ino EXCEPT ![f[d.path].ino] =
                        [content |-> text, stat |-> [@.stat EXCEPT !.mtime = "now"]]])
        ELSE IF d.st = "missing"
             THEN LET i == FreshIno(ino)
                  IN  Result("ok", Put(f, d.path, FileEntry(i)),
                             [x \in DOMAIN ino \cup {i} |->
                                 IF x = i THEN NewFile(text) ELSE ino[x]])
        ELSE Result("OSError", f, ino)

\* make_executable(path): a regular file gets its execute bits
\* (conda/gateways/disk/permissions.py, outside the sources at hand).
make_executable(f, ino, p) ==
    LET d == Real(f, p, MaxSymlinks)
    IN  IF d.st = "ok" /\ ~IsRealDir(f, d.path)
        THEN [ino EXCEPT ![f[d.path].ino].stat.mode = "rwx"]
        ELSE ino

\* entry_point_template % {'module': module, 'func': func}
entry_point_template(module, func) ==
    << <<"# -*- coding: utf-8 -*-">>,
       <<"if __name__ == '__main__':">>,
       <<"    from sys import exit">>,
       <<"    from ", module, " import ", func>>,
       <<"    exit(", func, "())">> >>

\* private_pkg_entry_point_template % {"source_full_path": source_full_path}:
\* the path goes into the call as it is given, without quotes of its own.
private_pkg_entry_point_template(source_full_path) ==
    << <<"import os">>,
       <<"import sys">>,
       <<"if __name__ == '__main__':">>,
       <<"    os.execv(", source_full_path, ", sys.argv)">> >>

\* '#!%s\n' % python_full_path
Shebang(python_full_path) == << <<"#!", python_full_path>> >>

\* The script is written, then made executable; a failed open ends the call.
WriteScript(f, ino, p, text, executable) ==
    LET w == write_text(f, ino, p, text)
    IN  IF w.outcome = "ok" /\ executable
        THEN Result("ok", w.fs, make_executable(w.fs, w.inodes, p))
        ELSE w

CreateUnixEntryPoint(f, ino, target, python, module, func) ==
    WriteScript(f, ino, target, Shebang(python) \o entry_point_template(module, func), TRUE)

CreateWindowsEntryPointPy(f, ino, target, module, func) ==
    WriteScript(f, ino, target, entry_point_template(module, func), FALSE)

CreatePrivatePkgEntryPoint(f, ino, target, python, source) ==
    WriteScript(f, ino, target,
                Shebang(python) \o private_pkg_entry_point_template(source), TRUE)

\* The interpreters compile_pyc is given: CPython 3.11, and a path where no
\* program is (Popen raises FileNotFoundError).
Interpreters == {"/usr/bin/python3", "/nonexistent/python"}
Installed(python) == python = "/usr/bin/python3"

\* The paths a private entry point is given to execute: bare, and as a Python
\* string literal.
SourcePaths == {"/x", "'/x'"}
StringLiterals == {"'/x'"}

\* The text is Python the interpreter compiles: not byte code, and no execv
\* line whose argument is a bare path.
Compiles(text) ==
    /\ ~(Len(text) >= 1 /\ text[1] = <<"pyc">>)
    /\ \A i \in 1..Len(text) :
           (Len(text[i]) = 3 /\ text[i][1] = "    os.execv(") =>
               text[i][2] \in StringLiterals

\* importlib.util.cache_from_source: the byte code of <dir>/<name> is
\* <dir>/__pycache__/<name>cpython-311.pyc for a name without a dot.
PycName(name) ==
    CASE name = "a" -> "acpython-311.pyc"
      [] name = "b" -> "bcpython-311.pyc"
      [] name = "c" -> "ccpython-311.pyc"
      [] name = "e" -> "ecpython-311.pyc"

PycOf(text) == << <<"pyc">> >> \o text

\* python -m py_compile <py>: the source is read, links followed; __pycache__
\* is made next to it when it is not there; the byte code is written to a
\* temporary file and moved into place, so an older .pyc is replaced by a new
\* file.  rc is 0, or 1 with nothing written: no source file, a source that
\* does not compile, __pycache__ no directory, the .pyc's place taken by a
\* link or a directory.
py_compile(f, ino, py) ==
    LET s == Real(f, py, MaxSymlinks)
        cache == Parent(py) \o <<"__pycache__">>
        c == LReal(f, cache)
        made == IF c.st = "missing" THEN Put(f, c.path, DirEntry) ELSE f
        dir == Real(made, cache, MaxSymlinks)
    IN  IF py = <<>> \/ s.st # "ok" \/ IsRealDir(f, s.path)
        THEN [rc |-> 1, fs |-> f, inodes |-> ino]
        ELSE IF ~Compiles(ino[f[s.path].ino].content)
        THEN [rc |-> 1, fs |-> f, inodes |-> ino]
        ELSE IF c.st = "err" \/ dir.st # "ok" \/ ~IsRealDir(made, dir.path)
        THEN [rc |-> 1, fs |-> f, inodes |-> ino]
        ELSE LET pyc == dir.path \o <<PycName(Basename(py))>>
                 i == FreshIno(ino)
                 g == Put(made, pyc, FileEntry(i))
                 all == [x \in DOMAIN ino \cup {i} |->
                            IF x = i THEN NewFile(PycOf(ino[f[s.path].ino].content))
                            ELSE ino[x]]
             IN  IF pyc \in DOMAIN made /\ made[pyc].kind # "file"
                 THEN [rc |-> 1, fs |-> f, inodes |-> ino]
                 ELSE [rc |-> 0, fs |-> g, inodes |-> Referenced(g, all)]

\* compile_pyc(python_exe_full_path, py_full_path): the interpreter is run as
\* a process of its own, and a return code other than 0 is a RuntimeError.
CompilePyc(f, ino, python, py) ==
    IF ~Installed(python) THEN Result("OSError", f, ino)
    ELSE LET r == py_compile(f, ino, py)
         IN  Result(IF r.rc = 0 THEN "ok" ELSE "RuntimeError", r.fs, r.inodes)

NoLinkCall == [op |-> "none", src |-> <<>>, dst |-> <<>>, link_type |-> "other",
               force |-> FALSE, envFail |-> FALSE, outcome |-> "ok",
               fs |-> <<>>, inodes |-> <<>>]

\* How many calls a run makes.
MaxCalls == 1

create_link(src, dst, lt, force, envFail) ==
    LET r == CreateLink(fs, inodes, on_win, src, dst, lt, force, envFail)
    IN  /\ calls < MaxCalls
        /\ calls' = calls + 1
        /\ fs' = r.fs
        /\ inodes' = r.inodes
        /\ linkLast' = [op |-> "create_link", src |-> src, dst |-> dst, link_type |-> lt,
                        force |-> force, envFail |-> envFail, outcome |-> r.outcome,
                        fs |-> fs, inodes |-> inodes]
        /\ UNCHANGED <<on_win, regVars, tarVars>>

create_hard_link_or_copy(src, dst, envFail) ==
    LET r == CreateHardLinkOrCopy(fs, inodes, on_win, src, dst, envFail)
    IN  /\ calls < MaxCalls
        /\ calls' = calls + 1
        /\ fs' = r.fs
        /\ inodes' = r.inodes
        /\ linkLast' = [op |-> "create_hard_link_or_copy", src |-> src, dst |-> dst,
                        link_type |-> "other", force |-> FALSE, envFail |-> envFail,
                        outcome |-> r.outcome, fs |-> fs, inodes |-> inodes]
        /\ UNCHANGED <<on_win, regVars, tarVars>>

\* A call that writes one file: what linkLast records of it.
Written(op, path, r) ==
    /\ calls < MaxCalls
    /\ calls' = calls + 1
    /\ fs' = r.fs
    /\ inodes' = r.inodes
    /\ linkLast' = [op |-> op, src |-> <<>>, dst |-> path, link_type |-> "other",
                    force |-> FALSE, envFail |-> FALSE, outcome |-> r.outcome,
                    fs |-> fs, inodes |-> inodes]
    /\ UNCHANGED <<on_win, regVars, tarVars>>

create_unix_entry_point(target, python, module, func) ==
    Written("create_unix_entry_point", target,
            CreateUnixEntryPoint(fs, inodes, target, python, module, func))

create_windows_entry_point_py(target, module, func) ==
    Written("create_windows_entry_point_py", target,
            CreateWindowsEntryPointPy(fs, inodes, target, module, func))

create_private_pkg_entry_point(target, python, source) ==
    Written("create_private_pkg_entry_point", target,
            CreatePrivatePkgEntryPoint(fs, inodes, target, python, source))

compile_pyc(python, py) ==
    Written("compile_pyc", py, CompilePyc(fs, inodes, python, py))

\* The paths the calls are made with.
A == <<"a">>
B == <<"b">>
C == <<"c">>
CE == <<"c", "e">>
SrcPaths == {A, C, CE}
DstPaths == {C, CE}

\* The filesystems a run starts from.  b is nothing, a file or a directory; a
\* is nothing, a file, a directory or a link to b (relative or absolute); c is
\* nothing, a file of its own, a second name of a's file, a link to b, an
\* empty directory or a directory holding the file c/e.
FileData(name) == [content |-> << <<name>> >>, stat |-> [mode |-> "rw", mtime |-> name]]

InitialB == {<<>>, [q \in {B} |-> FileEntry(2)], [q \in {B} |-> DirEntry]}
InitialA == {<<>>, [q \in {A} |-> FileEntry(1)], [q \in {A} |-> DirEntry],
             [q \in {A} |-> LinkEntry(Rel(B))], [q \in {A} |-> LinkEntry(Abs(B))]}
InitialC == {<<>>, [q \in {C} |-> FileEntry(3)], [q \in {C} |-> FileEntry(1)],
             [q \in {C} |-> LinkEntry(Rel(B))], [q \in {C} |-> LinkEntry(Abs(B))],
             [q \in {C} |-> DirEntry],
             [q \in {C, CE} |-> IF q = C THEN DirEntry ELSE FileEntry(4)]}

InitialFs ==
    { f \in {Merge(Merge(a, b), c) : a \in InitialA, b \in InitialB, c \in InitialC} :
        \* a second name of a's file needs a's file
        (C \in DOMAIN f /\ f[C] = FileEntry(1)) => (A \in DOMAIN f /\ f[A] = FileEntry(1)) }

InitialInodes(f) ==
    [i \in {j \in 1..4 : \E q \in DOMAIN f : f[q] = FileEntry(j)} |->
        FileData(CASE i = 1 -> "A" [] i = 2 -> "B" [] i = 3 -> "C" [] OTHER -> "E")]

(***************************************************************************)
(* The specifications.  Each one runs its own part of the module and holds *)
(* the other parts' variables still.                                       *)
(***************************************************************************)
LinkIdle ==
    /\ fs = <<>>
    /\ inodes = <<>>
    /\ on_win = FALSE
    /\ calls = 0
    /\ linkLast = NoLinkCall

RegIdle ==
    /\ regFile = NoFile
    /\ origin = NoFile
    /\ metaDirs = {}
    /\ metaRecords = NoRecords
    /\ regLast = NoCall
    /\ shadow = EmptyMapping

TarIdle ==
    /\ archive = <<>>
    /\ platform = "linux"
    /\ uid = 0
    /\ euid = 0
    /\ egid = 0
    /\ optimize = FALSE
    /\ trees = [d \in Destinations |-> NoTree]
    /\ tarLast = NoExtract

InitReg ==
    /\ TarIdle
    /\ LinkIdle
    /\ regFile \in {NoFile} \cup {FileOf(t) : t \in InitTexts}
    /\ origin = regFile
    /\ metaDirs \in SUBSET MetaPrefixes
    /\ metaRecords = NoRecords
    /\ regLast = NoCall
    /\ shadow = EmptyMapping

CreateMeta == \E pkg \in Pkgs, root \in RootPrefixes, prefix \in Prefixes :
                  create_private_envs_meta(pkg, root, prefix)

RemoveMeta == \E pkg \in Pkgs : remove_private_envs_meta(pkg)

WriteRecord == \E prefix \in MetaPrefixes, record \in Records :
                   write_conda_meta_record(prefix, record)

NextReg == CreateMeta \/ RemoveMeta \/ WriteRecord

SpecReg == InitReg /\ [][NextReg]_vars

InitTar ==
    /\ RegIdle
    /\ LinkIdle
    /\ archive \in Archives
    /\ platform \in {"linux", "darwin", "win32"}
    /\ \E pr \in Processes : uid = pr.uid /\ euid = pr.euid /\ egid = pr.egid
    /\ optimize \in BOOLEAN
    /\ trees \in [Destinations -> {NoTree, EmptyDir(Root), EmptyDir(User)}]
    /\ tarLast = NoExtract

Extract == \E tarball \in Tarballs, given \in {<<>>} \cup ExplicitDestinations :
               extract_tarball(tarball, given)

NextTar == Extract

SpecTar == InitTar /\ [][NextTar]_vars

InitLink ==
    /\ RegIdle
    /\ TarIdle
    /\ fs \in InitialFs
    /\ inodes = InitialInodes(fs)
    /\ on_win \in BOOLEAN
    /\ calls = 0
    /\ linkLast = NoLinkCall

Link == \E src \in SrcPaths, dst \in DstPaths, lt \in LinkTypes,
           force \in BOOLEAN, envFail \in BOOLEAN :
            create_link(src, dst, lt, force, envFail)

HardLinkOrCopy == \E src \in SrcPaths, dst \in DstPaths, envFail \in BOOLEAN :
                      create_hard_link_or_copy(src, dst, envFail)

\* The names an entry point is made of.
PythonPaths == {"/usr/bin/python3"}
Modules == {"m"}
Funcs == {"f"}

UnixEntryPoint == \E target \in SrcPaths, python \in PythonPaths, module \in Modules,
                     func \in Funcs :
                      create_unix_entry_point(target, python, module, func)

WindowsEntryPoint == \E target \in SrcPaths, module \in Modules, func \in Funcs :
                         create_windows_entry_point_py(target, module, func)

PrivateEntryPoint == \E target \in SrcPaths, python \in PythonPaths,
                        source \in SourcePaths :
                         create_private_pkg_entry_point(target, python, source)

CompilePy == \E python \in Interpreters, py \in SrcPaths : compile_pyc(python, py)

NextLink == \/ Link
            \/ HardLinkOrCopy
            \/ UnixEntryPoint
            \/ WindowsEntryPoint
            \/ PrivateEntryPoint
            \/ CompilePy

SpecLink == InitLink /\ [][NextLink]_vars

(***************************************************************************)
(* Claims about create_link and create_hard_link_or_copy, checked under    *)
(* SpecLink.  linkLast holds the call and the filesystem it began with.    *)
(***************************************************************************)
Pre == linkLast.fs
PreInodes == linkLast.inodes
Src == linkLast.src
Dst == linkLast.dst

Unchanged == fs = Pre /\ inodes = PreInodes

\* A create_link call of a link type that makes a link or a copy.
LinkCall ==
    /\ linkLast.op = "create_link"
    /\ linkLast.link_type \in {"hardlink", "softlink", "copy"}

\* The entry at p, as lstat and a read would show it: its kind, a link's
\* target, a file's data and the names its inode has.
NoEntry == [kind |-> "none", target |-> NoTarget, data |-> <<>>, names |-> {}]

EntryView(f, ino, p) ==
    LET d == LReal(f, p)
    IN  IF d.st # "ok" \/ d.path = <<>> THEN NoEntry
        ELSE LET e == f[d.path]
             IN  [kind |-> e.kind, target |-> e.target,
                  data |-> IF e.kind = "file" THEN <<ino[e.ino]>> ELSE <<>>,
                  names |-> IF e.kind = "file"
                            THEN {q \in DOMAIN f : f[q] = e}
                            ELSE {q \in DOMAIN f : IsPrefix(d.path, q)}]

Dangling(f, p) == islink(f, p) /\ ~exists(f, p)

\* What the same call, with force left at its default, makes of the
\* filesystem that differs only in that dst is not there.
Fresh ==
    LET gone == rm_rf(Pre, PreInodes, Dst)
    IN  CreateLink(gone.fs, gone.inodes, on_win, Src, Dst, linkLast.link_type,
                   FALSE, linkLast.envFail)

\* C1 as stated: for hardlink, softlink and copy, create_link with force=False
\* and a destination that is there fails with ClobberError and leaves the
\* destination and the rest of the filesystem as they were.
C1_Original ==
    (LinkCall /\ ~linkLast.force /\ lexists(Pre, Dst)) =>
        linkLast.outcome = "ClobberError" /\ Unchanged

\* C2 as stated: for hardlink, softlink and copy and every src, create_link
\* with force=True and a destination that is there (a file, a link or a
\* directory) ends with the outcome and the destination entry of the same call
\* on the filesystem without dst.
C2_Original ==
    (LinkCall /\ linkLast.force /\ lexists(Pre, Dst)) =>
        /\ linkLast.outcome = Fresh.outcome
        /\ EntryView(fs, inodes, Dst) = EntryView(Fresh.fs, Fresh.inodes, Dst)

\* C10 as stated: the clobber test takes a dangling link at dst for a
\* destination that is there: with force=False the call fails with
\* ClobberError, with force=True the link is deleted before the new entry is
\* made.
C10_Original ==
    (LinkCall /\ Dangling(Pre, Dst)) =>
        IF linkLast.force
        THEN /\ linkLast.outcome = Fresh.outcome
             /\ fs = Fresh.fs
             /\ inodes = Fresh.inodes
        ELSE linkLast.outcome = "ClobberError" /\ Unchanged

\* C3 as stated: whenever a create_link call with a destination that is there
\* returns an error, the destination entry is still there, unchanged.
C3_Original ==
    (linkLast.op = "create_link" /\ lexists(Pre, Dst) /\ linkLast.outcome # "ok") =>
        EntryView(fs, inodes, Dst) = EntryView(Pre, PreInodes, Dst)

\* C3 amended: a create_link call that returns an error has changed nothing,
\* but for one case: with force=True, a link type other than directory and a
\* destination that exists (links followed), the destination was deleted
\* before the link or copy was tried, and the call returns its error with the
\* destination gone and nothing else changed.
C3_ErrorLeavesOrDeletes ==
    (linkLast.op = "create_link" /\ linkLast.outcome # "ok") =>
        IF linkLast.force /\ linkLast.link_type # "directory" /\ exists(Pre, Dst)
        THEN /\ ~lexists(fs, Dst)
             /\ fs = rm_rf(Pre, PreInodes, Dst).fs
             /\ inodes = rm_rf(Pre, PreInodes, Dst).inodes
             /\ linkLast.outcome # "ClobberError"
        ELSE Unchanged

\* A forced hard link of a missing source onto a file: the error is returned
\* and the file is gone.
C3_Witness ==
    /\ linkLast.op = "create_link" /\ linkLast.link_type = "hardlink"
    /\ linkLast.force /\ ~linkLast.envFail
    /\ linkLast.outcome = "OSError"
    /\ EntryView(Pre, PreInodes, Dst).kind = "file"
    /\ ~lexists(Pre, Src)
    /\ ~lexists(fs, Dst)

\* The hard link of create_hard_link_or_copy failed: the source is no link and
\* the native call, made on the filesystem the call began with, did not succeed.
HardLinkFailed ==
    /\ linkLast.op = "create_hard_link_or_copy"
    /\ ~islink(Pre, Src)
    /\ hard_link(Pre, PreInodes, on_win, Src, Dst, linkLast.envFail).outcome # "ok"

IsRegular(f, p) ==
    /\ exists(f, p)
    /\ ~IsRealDir(f, Real(f, p, MaxSymlinks).path)

DataOf(f, ino, p) == ino[f[Real(f, p, MaxSymlinks).path].ino]

\* C4 as stated: whenever the hard link fails for a source that is no link,
\* create_hard_link_or_copy returns successfully through the copy and dst's
\* content is src's.
C4_Original ==
    HardLinkFailed =>
        /\ linkLast.outcome = "ok"
        /\ IsRegular(fs, Dst) /\ IsRegular(fs, Src)
        /\ DataOf(fs, inodes, Dst).content = DataOf(fs, inodes, Src).content

\* Both paths lead to one file: shutil's SameFileError.
SameFile(f, p, q) ==
    /\ IsRegular(f, p) /\ IsRegular(f, q)
    /\ f[Real(f, p, MaxSymlinks).path].ino = f[Real(f, q, MaxSymlinks).path].ino

\* C4 amended: whenever the hard link fails for a source that is no link, the
\* copy is tried and the link's own error is never the one surfaced.  When src
\* is a regular file and dst is no directory, not the same file as src and
\* can be opened for writing, the call returns successfully and dst's content
\* and stat are src's.  When the copy fails too (src missing or a directory,
\* dst the same file) its OSError is surfaced and nothing has changed.
C4_FallbackCopies ==
    HardLinkFailed =>
        /\ linkLast.outcome \in {"ok", "OSError"}
        /\ (/\ IsRegular(Pre, Src)
            /\ ~isdir(Pre, Dst)
            /\ ~SameFile(Pre, Src, Dst)
            /\ Real(Pre, Dst, MaxSymlinks).st # "err")
           => /\ linkLast.outcome = "ok"
              /\ IsRegular(fs, Dst)
              /\ DataOf(fs, inodes, Dst) = DataOf(Pre, PreInodes, Src)
              /\ DataOf(fs, inodes, Src) = DataOf(Pre, PreInodes, Src)
        /\ ~IsRegular(Pre, Src) => linkLast.outcome = "OSError"
        /\ linkLast.outcome # "ok" => Unchanged

\* The native link failed on another volume and the copy made dst a file of its
\* own with src's content.
C4_Witness ==
    /\ HardLinkFailed /\ linkLast.envFail /\ ~on_win
    /\ linkLast.outcome = "ok"
    /\ ~lexists(Pre, Dst)
    /\ EntryView(fs, inodes, Dst).kind = "file"
    /\ EntryView(fs, inodes, Dst).names = {LReal(fs, Dst).path}
    /\ DataOf(fs, inodes, Dst) = DataOf(Pre, PreInodes, Src)

\* A create_link call of type copy whose destination is not there and can be
\* made: its directory exists and the native calls do not fail by themselves.
CopyCall ==
    /\ linkLast.op = "create_link" /\ linkLast.link_type = "copy"
    /\ LReal(Pre, Dst).st = "missing"
    /\ ~linkLast.envFail

RelativeLinkSrc == ~on_win /\ islink(Pre, Src) /\ ~readlink(Pre, Src).abs

\* dst is a regular file of its own with the content and stat src leads to.
ContentCopy ==
    /\ EntryView(fs, inodes, Dst).kind = "file"
    /\ EntryView(fs, inodes, Dst).names = {LReal(fs, Dst).path}
    /\ IsRegular(Pre, Src)
    /\ EntryView(fs, inodes, Dst).data = <<DataOf(Pre, PreInodes, Src)>>

\* dst is a link with src's target string.
SameLink ==
    /\ EntryView(fs, inodes, Dst).kind = "link"
    /\ EntryView(fs, inodes, Dst).target = readlink(Pre, Src)

\* C9 as stated: off Windows, copying a relative link makes dst a link with
\* the same target string; for every other src (a regular file, a link with an
\* absolute target, any src on Windows) dst is a content copy.
C9_Original ==
    CopyCall =>
        IF RelativeLinkSrc THEN linkLast.outcome = "ok" /\ SameLink
        ELSE (\/ (lexists(Pre, Src) /\ ~islink(Pre, Src) /\ IsRegular(Pre, Src))
              \/ (islink(Pre, Src) /\ readlink(Pre, Src).abs)
              \/ (on_win /\ lexists(Pre, Src)))
             => linkLast.outcome = "ok" /\ ContentCopy

\* C9 amended: off Windows, copying a relative link makes dst a link with the
\* same target string.  For every other src that leads to a regular file
\* (itself, or through its links) dst is a content copy; for one that does
\* not (missing, a directory, a dangling link) the copy fails with OSError
\* and dst is not made.
C9_CopyKeepsRelativeLinks ==
    CopyCall =>
        IF RelativeLinkSrc THEN linkLast.outcome = "ok" /\ SameLink
        ELSE IF IsRegular(Pre, Src) THEN linkLast.outcome = "ok" /\ ContentCopy
        ELSE linkLast.outcome = "OSError" /\ Unchanged

\* A relative link that dangles was copied as a link, and not followed.
C9_Witness ==
    /\ CopyCall /\ RelativeLinkSrc
    /\ Dangling(Pre, Src)
    /\ linkLast.outcome = "ok"
    /\ SameLink
    /\ ~EntryView(fs, inodes, Dst).target.abs

(***************************************************************************)
(* Claims about extract_tarball, checked under SpecTar.                    *)
(***************************************************************************)
Extracted == tarLast.op = "extract" /\ tarLast.outcome = "ok"

\* What is on disk under the destination of the last call.
Final == trees[tarLast.dest].entries

\* C5 as stated: after extract_tarball on a POSIX system as uid 0 every regular
\* file under the destination has owner 0/0, and the ownership rewrite changes
\* the owner of no directory and of no symbolic link.
C5_Original ==
    (Extracted /\ platform # "win32" /\ uid = 0) =>
        \A p \in DOMAIN Final :
            /\ Final[p].kind = "file" => Final[p].owner = Root
            /\ Final[p].kind # "file" => Final[p].owner = tarLast.extracted[p].owner

\* C5 amended: after a call that completes on Linux with the real user id 0,
\* every regular file under the destination has owner 0/0; no directory and no
\* link that resolves to a directory changes owner, while a link that does not
\* resolve to a directory is set to 0/0 as well.  On any other platform, and
\* for any other real user id, nothing is rewritten.
C5_OwnershipRewrite ==
    Extracted =>
        IF platform = "linux" /\ uid = 0
        THEN \A p \in DOMAIN Final :
                /\ DOMAIN Final = DOMAIN tarLast.extracted
                /\ Final[p].kind = "file" => Final[p].owner = Root
                /\ Final[p].kind = "dir" => Final[p] = tarLast.extracted[p]
                /\ Final[p].kind = "link" =>
                       IF StatKind(Final, p, MaxSymlinks) = "dir"
                       THEN Final[p] = tarLast.extracted[p]
                       ELSE Final[p] = [tarLast.extracted[p] EXCEPT !.owner = Root]
        ELSE Final = tarLast.extracted

\* As root on Linux: a file below the top and a link to a file, both recorded
\* with another owner, are root's; a directory and a link to it keep theirs.
C5_Witness ==
    /\ Extracted /\ platform = "linux" /\ uid = 0 /\ euid = 0
    /\ <<"d", "g">> \in DOMAIN Final
    /\ tarLast.extracted[<<"d", "g">>].owner = Builder
    /\ Final[<<"d", "g">>].owner = Root
    /\ Final[<<"d">>].owner = Builder
    /\ \E p \in DOMAIN Final :
           /\ Final[p].kind = "link"
           /\ tarLast.extracted[p].owner = Builder
           /\ Final[p].owner = Root
    /\ \E p \in DOMAIN Final :
           /\ Final[p].kind = "link"
           /\ StatKind(Final, p, MaxSymlinks) = "dir"
           /\ Final[p].owner = Builder

(***************************************************************************)
(* Claims about the registry, checked under SpecReg.                       *)
(***************************************************************************)
\* What the file reads as: the mapping of a valid object, or "unreadable".
HoldsMapping(f, m) ==
    /\ f.present
    /\ json_load(f.text).ok
    /\ json_load(f.text).kind = "dict"
    /\ AsMapping(json_load(f.text).d) = m

Malformed(f) == f.present /\ ~json_load(f.text).ok

\* C6: starting from no registry file, after any sequence of upserts and
\* removals the file is absent exactly when the mapping the same calls build
\* from an empty mapping is empty, and otherwise holds exactly that mapping,
\* never an empty object.
C6_RegistryMirrorsMapping ==
    origin = NoFile =>
        /\ regFile.present <=> shadow # EmptyMapping
        /\ regFile.present => /\ HoldsMapping(regFile, shadow)
                              /\ regFile.text # <<"{", "}">>

\* Two entries were upserted and the removal of the last one deleted the file.
C6_Witness ==
    /\ origin = NoFile
    /\ regLast.op = "remove"
    /\ regLast.pre.present
    /\ Len(regLast.read.d) = 1
    /\ ~regFile.present
    /\ metaDirs # {}

\* C7: with the registry file missing or holding malformed JSON,
\* get_json_content returns {} and an upsert or a removal completes without an
\* error; the upsert leaves a file holding exactly the inserted entry.
C7_MissingOrMalformedReadsEmpty ==
    (regLast.op # "none" /\ (~regLast.pre.present \/ Malformed(regLast.pre))) =>
        /\ regLast.read = [kind |-> "dict", d |-> <<>>]
        /\ regLast.outcome = "ok"
        /\ regLast.op = "create" =>
               HoldsMapping(regFile, ShadowSet(EmptyMapping, regLast.pkg, regLast.prefix))

\* An upsert was issued against a file of malformed JSON.
C7_Witness ==
    /\ regLast.op = "create"
    /\ Malformed(regLast.pre)
    /\ regLast.outcome = "ok"
    /\ regFile.present

\* The file reads the same before and after: both absent, or the same text, or
\* valid objects of the same mapping.
SameRegistry(f, g) ==
    /\ f.present = g.present
    /\ f.present =>
          \/ f.text = g.text
          \/ /\ json_load(f.text).ok /\ json_load(f.text).kind = "dict"
             /\ HoldsMapping(g, AsMapping(json_load(f.text).d))

\* The removal of a package that is no key of what was read.
RemovedAbsentKey ==
    /\ regLast.op = "remove"
    /\ regLast.read.kind = "dict"
    /\ regLast.pkg \notin Keys(regLast.read.d)

\* C8 as stated: the removal of a package that is no key of the registry
\* raises nothing and leaves the file's presence and content as they were,
\* whether the file was absent, held a non-empty mapping or was malformed.
C8_Original ==
    (RemovedAbsentKey /\ (~regLast.pre.present \/ Malformed(regLast.pre)
                            \/ regLast.read.d # <<>>)) =>
        /\ regLast.outcome = "ok"
        /\ SameRegistry(regLast.pre, regFile)

\* C8 amended: such a removal raises nothing; an absent file stays absent and a
\* non-empty mapping without the package is written back as the same mapping;
\* a file that reads as an empty mapping (malformed JSON) is deleted.
C8_RemoveAbsentKey ==
    RemovedAbsentKey =>
        /\ regLast.outcome = "ok"
        /\ regLast.read.d # <<>> => /\ regLast.pre.present
                                    /\ HoldsMapping(regFile, AsMapping(regLast.read.d))
        /\ regLast.read.d = <<>> => ~regFile.present

\* A removal found malformed JSON and deleted the file.
C8_Witness ==
    /\ RemovedAbsentKey
    /\ Malformed(regLast.pre)
    /\ ~regFile.present

=============================================================================
